---- MODULE Spec2Model ----
(***************************************************************************)
(* A model of the OSC library PFCM/osc: the argument and message codec     *)
(* (package osc), the address-pattern engine (package server, pattern.go)  *)
(* and the dispatch listener (package server, Listener.Serve).             *)
(*                                                                         *)
(* Byte strings ([]byte and string) are sequences of numbers 0..255.       *)
(* 32-bit words never appear as one number: they are kept as bytes or as   *)
(* 16-bit halves, and an int32 as a number in -2^31 .. 2^31-1.             *)
(***************************************************************************)
EXTENDS Integers, Sequences, FiniteSets, TLC

(***************************************************************************)
(* Bounds of the model.                                                    *)
(***************************************************************************)
\* longest String value and longest address drawn for the codec
MaxStr == 2
\* most arguments of a Message drawn for the codec
MaxArgs == 2
\* longest destination buffer handed to Append
MaxPre == 4
\* longest tail put after an encoding
MaxTail == 2
\* longest matcher sequence drawn for Pattern.Match
MaxMatchers == 3
\* longest input string drawn for Pattern.Match
MaxInput == 3
\* most registrations made with Listener.Handle before Serve
MaxHandlers == 2
\* largest worker count given to NewListener
MaxWorkers == 2
\* datagrams the transport delivers in one run of Serve
MaxDatagrams == 3
\* longest body of a pattern text handed to parseMatcher and parseCharClass
MaxBody == 4
\* longest buffer handed to String.Consume on its own
MaxBuf == 5
\* longest type-tag string of the buffers handed to ParseMessage
MaxTags == 3

(***************************************************************************)
(* Helpers on byte strings.                                                *)
(***************************************************************************)
Min(a, b) == IF a < b THEN a ELSE b

\* s[n:] of Go, n counted from 0
Drop(s, n) == SubSeq(s, n + 1, Len(s))

\* s[:n] of Go
Take(s, n) == SubSeq(s, 1, n)

\* bytes.IndexByte / strings.IndexByte: 0-based index of the first c, or -1
IndexByte(b, c) ==
    IF \E i \in 1..Len(b) : b[i] = c
    THEN (CHOOSE i \in 1..Len(b) : b[i] = c /\ \A j \in 1..(i - 1) : b[j] # c) - 1
    ELSE -1

\* all sequences over S of length at most n
RECURSIVE SeqsUpTo(_, _)
SeqsUpTo(S, n) ==
    IF n = 0 THEN {<<>>}
    ELSE LET R == SeqsUpTo(S, n - 1)
         IN  R \cup {Append(r, x) : r \in {q \in R : Len(q) = n - 1}, x \in S}

(***************************************************************************)
(* Argument values.  An Argument is [k |-> variant, v |-> payload]; the    *)
(* payload is always a sequence of numbers:                                *)
(*   Int32   <<n>>        n the int32                                      *)
(*   Float32 <<hi, lo>>   the two 16-bit halves of the IEEE-754 pattern    *)
(*   String  the bytes of the string                                       *)
(*   TimeTag <<sec, nsec>> the instant, relative to 1900-01-01 UTC (below)  *)
(*   True, False, Null, Impulse  <<>>                                      *)
(***************************************************************************)
Arg(k, v) == [k |-> k, v |-> v]

\* TypeTag of each variant: 'i' 'f' 's' 't' 'T' 'F' 'N' 'I'
TypeTag(a) ==
    CASE a.k = "Int32"   -> 105
      [] a.k = "Float32" -> 102
      [] a.k = "String"  -> 115
      [] a.k = "TimeTag" -> 116
      [] a.k = "True"    -> 84
      [] a.k = "False"   -> 70
      [] a.k = "Null"    -> 78
      [] a.k = "Impulse" -> 73

\* the registry: tag rune -> the zero value its constructor returns (the zero
\* time.Time is in year 1, long before the epoch: the least sec of the model)
newByTypeTag ==
    (105 :> Arg("Int32", <<0>>)) @@ (102 :> Arg("Float32", <<0, 0>>)) @@
    (115 :> Arg("String", <<>>)) @@ (116 :> Arg("TimeTag", <<-2147483647, 0>>)) @@
    (84 :> Arg("True", <<>>)) @@ (70 :> Arg("False", <<>>)) @@
    (78 :> Arg("Null", <<>>)) @@ (73 :> Arg("Impulse", <<>>))

\* result of a Consume: Go's (nil, err) is ok = FALSE with the receiver kept
Consumed(val, rest) == [ok |-> TRUE, val |-> val, rest |-> rest]
Failed(old) == [ok |-> FALSE, val |-> old, rest |-> <<>>]

\* the four bytes least significant first
Int32AppendLittleEndian(i, b) ==
    b \o << (i % 256), ((i \div 256) % 256), ((i \div 65536) % 256), ((i \div 16777216) % 256) >>

\* binary.BigEndian.AppendUint32(b, uint32(i)) for an int32 i
Int32Append(i, b) ==
    b \o << ((i \div 16777216) % 256), ((i \div 65536) % 256), ((i \div 256) % 256), (i % 256) >>

\* Int32(binary.BigEndian.Uint32(b)): the two's-complement reading of 4 bytes
Int32FromBytes(b) ==
    (IF b[1] >= 128 THEN b[1] - 256 ELSE b[1]) * 16777216 + b[2] * 65536 + b[3] * 256 + b[4]

\* Int32.Consume that zeroes the receiver when the buffer is too short
Int32ConsumeClears(self, b) ==
    IF Len(b) < 4 THEN Failed(Arg("Int32", <<0>>))
    ELSE Consumed(Arg("Int32", << Int32FromBytes(b) >>), Drop(b, 4))

Int32Consume(self, b) ==
    IF Len(b) < 4 THEN Failed(self)
    ELSE Consumed(Arg("Int32", << Int32FromBytes(b) >>), Drop(b, 4))

\* binary.BigEndian.AppendUint32(b, math.Float32bits(f))
Float32Append(f, b) ==
    b \o << (f[1] \div 256), (f[1] % 256), (f[2] \div 256), (f[2] % 256) >>

Float32Consume(self, b) ==
    IF Len(b) < 4 THEN Failed(self)
    ELSE Consumed(Arg("Float32", << b[1] * 256 + b[2], b[3] * 256 + b[4] >>), Drop(b, 4))

\* the padding loop of String.Append: for len(b)%4 > 0 { b = append(b, 0) }
RECURSIVE PadLoop(_)
PadLoop(b) == IF (Len(b) % 4) > 0 THEN PadLoop(Append(b, 0)) ELSE b

StringAppend(s, b) == PadLoop(Append(b \o s, 0))

\* a slip: the remainder starts right after the terminator
StringConsumeNoPad(self, b) ==
    LET end == IndexByte(b, 0)
    IN  IF end < 0 THEN Failed(self)
        ELSE Consumed(Arg("String", Take(b, end)), Drop(b, end + 1))

\* String.Consume that insists on the padding: NUL bytes up to the next
\* multiple of 4
StringConsumeChecksPadding(self, b) ==
    LET end == IndexByte(b, 0)
        stop == (end + 4) - (end % 4)
    IN  IF end < 0 THEN Failed(self)
        ELSE IF stop > Len(b) \/ \E i \in (end + 1)..stop : b[i] # 0 THEN Failed(self)
        ELSE Consumed(Arg("String", Take(b, end)), Drop(b, stop))

\* String.Consume that takes a buffer without NUL as a string running to its end
StringConsumeUnterminated(self, b) ==
    LET end == IndexByte(b, 0)
    IN  IF end < 0 THEN Consumed(Arg("String", b), <<>>)
        ELSE Consumed(Arg("String", Take(b, end)),
                      Drop(b, Min((end + 4) - (end % 4), Len(b))))

StringConsume(self, b) ==
    LET end == IndexByte(b, 0)
    IN  IF end < 0 THEN Failed(self)
        ELSE Consumed(Arg("String", Take(b, end)),
                      Drop(b, Min((end + 4) - (end % 4), Len(b))))

(***************************************************************************)
(* TimeTag.  A TimeTag value is <<sec, nsec>>: the instant sec seconds and *)
(* nsec nanoseconds (0 <= nsec < 10^9) after the epoch; sec < 0 is an      *)
(* instant before the epoch.  The code computes in float64; the operators  *)
(* below compute the same quantities exactly, which agrees with the code   *)
(* wherever the float64 operations are exact or round away from no integer *)
(* boundary, as on the instants TimeTagValues draws.                       *)
(***************************************************************************)
\* the 8 bits of a byte, most significant first
ByteBits(x) == [i \in 1..8 |-> (x \div (2 ^ (8 - i))) % 2]

\* byte j (1..4) of a 32-bit word given as 32 bits, most significant first
BitsByte(bits, j) ==
    bits[8 * j - 7] * 128 + bits[8 * j - 6] * 64 + bits[8 * j - 5] * 32 + bits[8 * j - 4] * 16
    + bits[8 * j - 3] * 8 + bits[8 * j - 2] * 4 + bits[8 * j - 1] * 2 + bits[8 * j]

\* uint64(frac*stepsPerSecond): the first n binary digits of r / 10^9
RECURSIVE FracBits(_, _)
FracBits(r, n) ==
    IF n = 0 THEN <<>>
    ELSE LET d == 2 * r
         IN  IF d >= 1000000000 THEN <<1>> \o FracBits(d - 1000000000, n - 1)
             ELSE <<0>> \o FracBits(d, n - 1)

\* the whole nanoseconds in (the 32-bit fraction) * 10^9 / 2^32, truncated as
\* the conversion to time.Duration truncates; bits[n] .. bits[1] still to add
RECURSIVE FracNanos(_, _, _)
FracNanos(bits, n, q) ==
    IF n = 0 THEN q ELSE FracNanos(bits, n - 1, (bits[n] * 1000000000 + q) \div 2)

TimeTagAppend(t, b) ==
    IF t[1] < 0 \/ (t[1] = 0 /\ t[2] = 0)
    THEN b \o <<0, 0, 0, 0, 0, 0, 0, 0>>
    ELSE LET fb == FracBits(t[2], 32)
         IN  Int32Append(t[1], b) \o
             << BitsByte(fb, 1), BitsByte(fb, 2), BitsByte(fb, 3), BitsByte(fb, 4) >>

TimeTagConsume(self, b) ==
    IF Len(b) < 8 THEN Failed(self)
    ELSE LET bits == ByteBits(b[5]) \o ByteBits(b[6]) \o ByteBits(b[7]) \o ByteBits(b[8])
             sec  == b[1] * 16777216 + b[2] * 65536 + b[3] * 256 + b[4]
         IN  Consumed(Arg("TimeTag", << sec, FracNanos(bits, 32, 0) >>), Drop(b, 8))

\* True, False, Null, Impulse: Append returns b, Consume returns (b, nil)
MarkerAppend(b) == b

MarkerConsume(self, b) == Consumed(self, b)

\* Argument.Append, dispatched on the dynamic type
ArgAppend(a, b) ==
    CASE a.k = "Int32"   -> Int32Append(a.v[1], b)
      [] a.k = "Float32" -> Float32Append(a.v, b)
      [] a.k = "String"  -> StringAppend(a.v, b)
      [] a.k = "TimeTag" -> TimeTagAppend(a.v, b)
      [] OTHER           -> MarkerAppend(b)

\* Argument.Consume, dispatched on the dynamic type of the receiver
ArgConsume(self, b) ==
    CASE self.k = "Int32"   -> Int32Consume(self, b)
      [] self.k = "Float32" -> Float32Consume(self, b)
      [] self.k = "String"  -> StringConsume(self, b)
      [] self.k = "TimeTag" -> TimeTagConsume(self, b)
      [] OTHER              -> MarkerConsume(self, b)

(***************************************************************************)
(* Messages.  A *Message is [nil, Pattern, Arguments]; nil = TRUE is the   *)
(* nil pointer ParseMessage returns beside an error.                       *)
(***************************************************************************)
Msg(p, args) == [nil |-> FALSE, Pattern |-> p, Arguments |-> args]

NilMsg == [nil |-> TRUE, Pattern |-> <<>>, Arguments |-> <<>>]

\* the loop over tt[1:] that passes over a tag the registry does not hold
RECURSIVE ParseArgsSkipsUnknown(_, _, _, _, _)
ParseArgsSkipsUnknown(addr, tags, i, buf, args) ==
    IF i > Len(tags) THEN [ok |-> TRUE, msg |-> Msg(addr, args)]
    ELSE IF tags[i] \notin DOMAIN newByTypeTag
         THEN ParseArgsSkipsUnknown(addr, tags, i + 1, buf, args)
    ELSE LET r == ArgConsume(newByTypeTag[tags[i]], buf)
         IN  IF ~r.ok THEN [ok |-> FALSE, msg |-> NilMsg]
             ELSE ParseArgsSkipsUnknown(addr, tags, i + 1, r.rest, Append(args, r.val))

\* the loop over tt[1:] of ParseMessage, at tag i with buf still to read
RECURSIVE ParseArgs(_, _, _, _, _)
ParseArgs(addr, tags, i, buf, args) ==
    IF i > Len(tags) THEN [ok |-> TRUE, msg |-> Msg(addr, args)]
    ELSE IF tags[i] \notin DOMAIN newByTypeTag THEN [ok |-> FALSE, msg |-> NilMsg]
    ELSE LET r == ArgConsume(newByTypeTag[tags[i]], buf)
         IN  IF ~r.ok THEN [ok |-> FALSE, msg |-> NilMsg]
             ELSE ParseArgs(addr, tags, i + 1, r.rest, Append(args, r.val))

\* a slip: the loop runs over tt, the leading comma included
ParseMessageKeepsComma(buf) ==
    LET a == StringConsume(Arg("String", <<>>), buf)
    IN  IF ~a.ok THEN [ok |-> FALSE, msg |-> NilMsg]
        ELSE LET tt == StringConsume(Arg("String", <<>>), a.rest)
             IN  IF ~tt.ok THEN [ok |-> FALSE, msg |-> NilMsg]
                 ELSE IF Len(tt.val.v) = 0 \/ tt.val.v[1] # 44
                      THEN [ok |-> FALSE, msg |-> NilMsg]
                      ELSE ParseArgs(a.val.v, tt.val.v, 1, tt.rest, <<>>)

ParseMessage(buf) ==
    LET a == StringConsume(Arg("String", <<>>), buf)
    IN  IF ~a.ok THEN [ok |-> FALSE, msg |-> NilMsg]
        ELSE LET tt == StringConsume(Arg("String", <<>>), a.rest)
             IN  IF ~tt.ok THEN [ok |-> FALSE, msg |-> NilMsg]
                 ELSE IF Len(tt.val.v) = 0 \/ tt.val.v[1] # 44
                      THEN [ok |-> FALSE, msg |-> NilMsg]
                      ELSE ParseArgs(a.val.v, Drop(tt.val.v, 1), 1, tt.rest, <<>>)

\* the last loop of Message.Append: arguments i.. appended to b
RECURSIVE AppendArgs(_, _, _)
AppendArgs(args, i, b) ==
    IF i > Len(args) THEN b ELSE AppendArgs(args, i + 1, ArgAppend(args[i], b))

MessageAppend(m, b) ==
    LET typeTag == <<44>> \o [i \in 1..Len(m.Arguments) |-> TypeTag(m.Arguments[i])]
    IN  AppendArgs(m.Arguments, 1, StringAppend(typeTag, StringAppend(m.Pattern, b)))

(***************************************************************************)
(* The pattern engine.  A matcher is one record shape for the three Go     *)
(* types: k = "char" (charMatcher{c}), "wild" (wildcard{single}) or        *)
(* "class" (charClass{chars, invert}, chars the set of bytes set to true). *)
(***************************************************************************)
charMatcher(c) == [k |-> "char", c |-> c, single |-> FALSE, chars |-> {}, invert |-> FALSE]

wildcard(single) == [k |-> "wild", c |-> 0, single |-> single, chars |-> {}, invert |-> FALSE]

charClass(chars, invert) ==
    [k |-> "class", c |-> 0, single |-> FALSE, chars |-> chars, invert |-> invert]

\* the matchResult bits
noMatch == 0
matchAdvanceBoth == 2
matchAdvanceMatcher == 4
matchAdvanceInput == 8

\* (results & flag) != 0, flag one of the bits above
HasBit(results, flag) == ((results \div flag) % 2) = 1

\* a slip: the multi-wildcard never matches the empty string
matcherMatchNoEmpty(m, b) ==
    CASE m.k = "char"  -> IF m.c = b THEN matchAdvanceBoth ELSE noMatch
      [] m.k = "wild"  -> IF m.single THEN matchAdvanceBoth
                          ELSE matchAdvanceBoth + matchAdvanceInput
      [] m.k = "class" -> IF (b \in m.chars) # m.invert THEN matchAdvanceBoth ELSE noMatch

\* matcher.match(b), dispatched on the dynamic type
matcherMatch(m, b) ==
    CASE m.k = "char"  -> IF m.c = b THEN matchAdvanceBoth ELSE noMatch
      [] m.k = "wild"  -> IF m.single THEN matchAdvanceBoth
                          ELSE matchAdvanceBoth + matchAdvanceMatcher + matchAdvanceInput
      [] m.k = "class" -> IF (b \in m.chars) # m.invert THEN matchAdvanceBoth ELSE noMatch

matchState(matchers, s) == [matchers |-> matchers, s |-> s]

\* matchState.match whose * keeps the input where it is when it stays
stateMatchStarStays(m) ==
    IF Len(m.s) = 0
    THEN [next |-> <<>>,
          accept |-> \A i \in 1..Len(m.matchers) :
                        m.matchers[i].k = "wild" /\ ~m.matchers[i].single]
    ELSE IF Len(m.matchers) = 0 THEN [next |-> <<>>, accept |-> FALSE]
    ELSE LET results == matcherMatch(m.matchers[1], m.s[1])
             both == IF HasBit(results, matchAdvanceBoth)
                     THEN << matchState(Tail(m.matchers), Tail(m.s)) >> ELSE <<>>
             mat  == IF HasBit(results, matchAdvanceMatcher)
                     THEN << matchState(Tail(m.matchers), m.s) >> ELSE <<>>
             inp  == IF HasBit(results, matchAdvanceInput)
                     THEN << matchState(m.matchers, m.s) >> ELSE <<>>
         IN  [next |-> both \o mat \o inp, accept |-> FALSE]

\* matchState.match: the states to push and whether this state accepts
stateMatch(m) ==
    IF Len(m.s) = 0
    THEN [next |-> <<>>,
          accept |-> \A i \in 1..Len(m.matchers) :
                        m.matchers[i].k = "wild" /\ ~m.matchers[i].single]
    ELSE IF Len(m.matchers) = 0 THEN [next |-> <<>>, accept |-> FALSE]
    ELSE LET results == matcherMatch(m.matchers[1], m.s[1])
             both == IF HasBit(results, matchAdvanceBoth)
                     THEN << matchState(Tail(m.matchers), Tail(m.s)) >> ELSE <<>>
             mat  == IF HasBit(results, matchAdvanceMatcher)
                     THEN << matchState(Tail(m.matchers), m.s) >> ELSE <<>>
             inp  == IF HasBit(results, matchAdvanceInput)
                     THEN << matchState(m.matchers, Tail(m.s)) >> ELSE <<>>
         IN  [next |-> both \o mat \o inp, accept |-> FALSE]

\* the loop that follows only the state pushed last and drops the others
RECURSIVE MatchLoopNoBacktrack(_)
MatchLoopNoBacktrack(states) ==
    IF Len(states) = 0 THEN FALSE
    ELSE LET r == stateMatch(states[Len(states)])
         IN  IF r.accept THEN TRUE
             ELSE IF Len(r.next) = 0 THEN FALSE
             ELSE MatchLoopNoBacktrack(<< r.next[Len(r.next)] >>)

\* the loop of Pattern.Match over the stack of pending states
RECURSIVE MatchLoop(_)
MatchLoop(states) ==
    IF Len(states) = 0 THEN FALSE
    ELSE LET l == Len(states) - 1
             r == stateMatch(states[l + 1])
         IN  IF r.accept THEN TRUE ELSE MatchLoop(Take(states, l) \o r.next)

\* Pattern.Match(s), p the matcher sequence of the Pattern
PatternMatch(p, s) == MatchLoop(<< matchState(p, s) >>)

\* result of a parse step: ok, a Go error (ok = FALSE) or a runtime panic
Parsed(m, rest) == [ok |-> TRUE, panic |-> FALSE, m |-> m, rest |-> rest]
ParseError == [ok |-> FALSE, panic |-> FALSE, m |-> charClass({}, FALSE), rest |-> <<>>]
ParsePanic == [ok |-> FALSE, panic |-> TRUE, m |-> charClass({}, FALSE), rest |-> <<>>]

\* the loop of parseCharClass over s[0..end), at index i (0-based)
RECURSIVE ClassLoop(_, _, _, _)
ClassLoop(s, end, i, chars) ==
    IF i >= end THEN [ok |-> TRUE, chars |-> chars]
    ELSE LET c == s[i + 1]
         IN  IF c = 45 /\ i > 0 /\ (i + 1) < end
             THEN LET next == s[i + 2]
                      prev == s[i]
                  IN  IF next < prev THEN [ok |-> FALSE, chars |-> chars]
                      ELSE ClassLoop(s, end, i + 1, chars \cup (prev..(next - 1)))
             ELSE ClassLoop(s, end, i + 1, chars \cup {c})

\* the error return of parseCharClass: cc as far as it was filled in
ClassError(chars, invert) ==
    [ok |-> FALSE, panic |-> FALSE, m |-> charClass(chars, invert), rest |-> <<>>]

\* parseCharClass that gives every '-' of the body as a listed byte
parseCharClassLiteralHyphen(s0) ==
    IF Len(s0) = 0 \/ s0[1] # 91 THEN ClassError({}, FALSE)
    ELSE LET s1 == Tail(s0)
         IN  IF Len(s1) = 0 THEN ClassError({}, FALSE)
             ELSE LET invert == (s1[1] = 33)
                      s == IF invert THEN Tail(s1) ELSE s1
                      end == IndexByte(s, 93)
                  IN  IF end < 0 THEN ClassError({}, invert)
                      ELSE Parsed(charClass({s[i] : i \in 1..end}, invert),
                                  Drop(s, end + 1))

\* parseCharClass that takes a text without ']' as a class running to its end
parseCharClassOpenEnded(s0) ==
    IF Len(s0) = 0 \/ s0[1] # 91 THEN ClassError({}, FALSE)
    ELSE LET s1 == Tail(s0)
         IN  IF Len(s1) = 0 THEN ClassError({}, FALSE)
             ELSE LET invert == (s1[1] = 33)
                      s == IF invert THEN Tail(s1) ELSE s1
                      at == IndexByte(s, 93)
                      end == IF at < 0 THEN Len(s) ELSE at
                      r == ClassLoop(s, end, 0, {})
                  IN  IF ~r.ok THEN ClassError(r.chars, invert)
                      ELSE Parsed(charClass(r.chars, invert), Drop(s, end + 1))

parseCharClass(s0) ==
    IF Len(s0) = 0 \/ s0[1] # 91 THEN ClassError({}, FALSE)
    ELSE LET s1 == Tail(s0)
         IN  IF Len(s1) = 0 THEN ClassError({}, FALSE)
             ELSE LET invert == (s1[1] = 33)
                      s == IF invert THEN Tail(s1) ELSE s1
                      end == IndexByte(s, 93)
                  IN  IF end < 0 THEN ClassError({}, invert)
                      ELSE LET r == ClassLoop(s, end, 0, {})
                           IN  IF ~r.ok THEN ClassError(r.chars, invert)
                               ELSE Parsed(charClass(r.chars, invert), Drop(s, end + 1))

\* parseMatcher: the length test as the source has it; s[0] of an empty string
\* is an index-out-of-range panic
parseMatcher(s) ==
    IF Len(s) # 0 THEN ParseError
    ELSE IF Len(s) = 0 THEN ParsePanic
    ELSE CASE s[1] = 91 -> parseCharClass(s)
           [] s[1] = 42 -> Parsed(wildcard(FALSE), Tail(s))
           [] s[1] = 63 -> Parsed(wildcard(TRUE), Tail(s))
           [] OTHER     -> Parsed(charMatcher(s[1]), Tail(s))

\* ParsePattern, which Listener.handle calls: parseMatcher applied left to
\* right until the text is used up; the first failure is the result
RECURSIVE ParsePatternLoop(_, _)
ParsePatternLoop(s, acc) ==
    IF Len(s) = 0 THEN [ok |-> TRUE, panic |-> FALSE, matchers |-> acc]
    ELSE LET r == parseMatcher(s)
         IN  IF ~r.ok THEN [ok |-> FALSE, panic |-> r.panic, matchers |-> <<>>]
             ELSE ParsePatternLoop(r.rest, Append(acc, r.m))

ParsePattern(s) == ParsePatternLoop(s, <<>>)

(***************************************************************************)
(* State.                                                                  *)
(***************************************************************************)
VARIABLES
    \* the Listener: the handler table (registered texts) and the worker count
    handlers, workers,
    \* "setup" before Serve, "serving", "returned", or "panicked" (an
    \* unrecovered runtime panic in a goroutine ends the process)
    phase,
    \* ctx of the caller is cancelled; gctx of the errgroup is done; the first
    \* error the errgroup recorded; what Serve returned
    ctxCancelled, gctxDone, gerr, result,
    \* the transport: datagrams it may still deliver, and whether ReadFrom has
    \* returned an error
    wire, rerr,
    \* the channel recv
    recv,
    \* the decode goroutine: where it is, the msg it is sending, the err of
    \* the ReadFrom it is handling
    dpc, dmsg, derr,
    \* worker goroutines: where each is, the msg it handles, the index of the
    \* handler it is in, the handlers that have returned for this msg (index
    \* and whether it returned an error), and what l.handle returned
    wpc, wmsg, wi, called, hret,
    \* the argument under test, the buffer and tail it is used with, the result
    \* of Append(pre) and of Consume(Append(nil) + tail): the
    \* results of the round trip, and which of the two have been computed
    arg, pre, tail, enc, dec, adone,
    \* the message under test, the results of Append, ParseMessage and Append
    \* again, and how far the round trip has got
    msg, menc, mdec, menc2, mdone,
    \* Pattern.Match: the pattern, the input, the stack of pending states, and
    \* "idle", "running", "true" or "false"
    mpat, minput, mstates, mres,
    \* one call of a function of the library: which function, its input, its
    \* result, and whether the call has been made
    cfn, cin, cout, cdone,
    \* a search over the transitions of matchState.match that keeps the pending
    \* (matcher-index, input-index) pairs in a set and remembers those visited:
    \* the pending pairs, the visited ones, and "idle", "running", "true" or
    \* "false"
    pending, visited, found

listenerVars == << handlers, workers, phase, ctxCancelled, gctxDone, gerr, result,
                   wire, rerr, recv, dpc, dmsg, derr, wpc, wmsg, wi, called, hret >>
argVars == << arg, pre, tail, enc, dec, adone >>
msgVars == << msg, menc, mdec, menc2, mdone >>
matchVars == << mpat, minput, mstates, mres >>
callVars == << cfn, cin, cout, cdone >>
memoVars == << pending, visited, found >>
pureVars == << argVars, msgVars, matchVars, callVars, memoVars >>
vars == << listenerVars, pureVars >>

\* the capacity of recv
QueueCap == 100

\* "/test" and "/test/a"
TestPath == <<47, 116, 101, 115, 116>>
TestAPath == <<47, 116, 101, 115, 116, 47, 97>>

\* the texts a caller registers handlers on
Texts == {<<>>, TestPath, TestAPath}

\* the datagrams the network delivers: a message to "", a message to
\* "/test/a", and one byte without terminator, which ParseMessage rejects
Datagrams ==
    {MessageAppend(Msg(<<>>, <<>>), <<>>), MessageAppend(Msg(TestAPath, <<>>), <<>>), <<97>>}

(***************************************************************************)
(* The dispatch listener.                                                  *)
(***************************************************************************)
Workers == 1..workers

\* NewListener(conn, n): no handler yet, nothing started
ListenerInit(counts, net) ==
    /\ workers \in counts
    /\ handlers = <<>>
    /\ phase = "setup"
    /\ ctxCancelled = FALSE /\ gctxDone = FALSE /\ gerr = "none" /\ result = "none"
    /\ wire = net /\ rerr = FALSE
    /\ recv = <<>>
    /\ dpc = "idle" /\ dmsg = NilMsg /\ derr = FALSE
    /\ wpc = [w \in 1..workers |-> "idle"]
    /\ wmsg = [w \in 1..workers |-> NilMsg]
    /\ wi = [w \in 1..workers |-> 0]
    /\ called = [w \in 1..workers |-> <<>>]
    /\ hret = [w \in 1..workers |-> "none"]

\* a goroutine of the errgroup returns the non-nil error e: the first such
\* error is kept and gctx is cancelled
TaskReturns(e) ==
    /\ gerr' = IF gerr = "none" THEN e ELSE gerr
    /\ gctxDone' = TRUE

\* Listener.Handle(pattern, h)
Handle(p) ==
    /\ phase = "setup"
    /\ Len(handlers) < MaxHandlers
    /\ handlers' = Append(handlers, p)
    /\ UNCHANGED << workers, phase, ctxCancelled, gctxDone, gerr, result, wire, rerr, recv,
                    dpc, dmsg, derr, wpc, wmsg, wi, called, hret >>
    /\ UNCHANGED pureVars

\* Listener.Serve up to g.Wait(): the decode goroutine and the workers start
Serve ==
    /\ phase = "setup"
    /\ phase' = "serving"
    /\ dpc' = "read"
    /\ wpc' = [w \in Workers |-> "select"]
    /\ UNCHANGED << handlers, workers, ctxCancelled, gctxDone, gerr, result, wire, rerr,
                    recv, dmsg, derr, wmsg, wi, called, hret >>
    /\ UNCHANGED pureVars

\* the caller cancels ctx, which cancels gctx
Cancel ==
    /\ phase = "serving"
    /\ ~ctxCancelled
    /\ ctxCancelled' = TRUE
    /\ gctxDone' = TRUE
    /\ UNCHANGED << handlers, workers, phase, gerr, result, wire, rerr, recv,
                    dpc, dmsg, derr, wpc, wmsg, wi, called, hret >>
    /\ UNCHANGED pureVars

\* ReadFrom returns a datagram d (n > 0), with or without an error e; the
\* decode goroutine parses it and goes to the select
ReadFrom(d, e) ==
    /\ phase = "serving"
    /\ dpc = "read"
    /\ wire.left > 0
    /\ Len(d) > 0
    /\ wire' = [wire EXCEPT !.left = @ - 1]
    /\ rerr' = (rerr \/ e)
    /\ dmsg' = ParseMessage(d).msg
    /\ derr' = e
    /\ dpc' = "select"
    /\ UNCHANGED << handlers, workers, phase, ctxCancelled, gctxDone, gerr, result, recv,
                    wpc, wmsg, wi, called, hret >>
    /\ UNCHANGED pureVars

\* ReadFrom returns n = 0 and no error: the loop goes round
ReadEmpty ==
    /\ phase = "serving"
    /\ dpc = "read"
    /\ wire.left > 0
    /\ wire' = [wire EXCEPT !.left = @ - 1]
    /\ UNCHANGED << handlers, workers, phase, ctxCancelled, gctxDone, gerr, result, rerr,
                    recv, dpc, dmsg, derr, wpc, wmsg, wi, called, hret >>
    /\ UNCHANGED pureVars

\* ReadFrom returns n = 0 and an error: the decode goroutine returns it
ReadError ==
    /\ phase = "serving"
    /\ dpc = "read"
    /\ rerr' = TRUE
    /\ dpc' = "exited"
    /\ TaskReturns("transport")
    /\ UNCHANGED << handlers, workers, phase, ctxCancelled, result, wire, recv,
                    dmsg, derr, wpc, wmsg, wi, called, hret >>
    /\ UNCHANGED pureVars

\* a slip: the send never blocks (a channel without the capacity)
DecodeEnqueueUnbounded ==
    /\ phase = "serving"
    /\ dpc = "select"
    /\ recv' = Append(recv, dmsg)
    /\ dmsg' = NilMsg
    /\ derr' = FALSE
    /\ IF derr
       THEN dpc' = "exited" /\ TaskReturns("transport")
       ELSE dpc' = "read" /\ UNCHANGED << gerr, gctxDone >>
    /\ UNCHANGED << handlers, workers, phase, ctxCancelled, result, wire, rerr,
                    wpc, wmsg, wi, called, hret >>
    /\ UNCHANGED pureVars

\* the case recv <- msg of the decode goroutine's select, then the test of err
DecodeEnqueue ==
    /\ phase = "serving"
    /\ dpc = "select"
    /\ Len(recv) < QueueCap
    /\ recv' = Append(recv, dmsg)
    /\ dmsg' = NilMsg
    /\ derr' = FALSE
    /\ IF derr
       THEN dpc' = "exited" /\ TaskReturns("transport")
       ELSE dpc' = "read" /\ UNCHANGED << gerr, gctxDone >>
    /\ UNCHANGED << handlers, workers, phase, ctxCancelled, result, wire, rerr,
                    wpc, wmsg, wi, called, hret >>
    /\ UNCHANGED pureVars

\* the case <-gctx.Done() of the decode goroutine's select
DecodeCancelled ==
    /\ phase = "serving"
    /\ dpc = "select"
    /\ gctxDone
    /\ dpc' = "exited"
    /\ dmsg' = NilMsg
    /\ derr' = FALSE
    /\ TaskReturns("canceled")
    /\ UNCHANGED << handlers, workers, phase, ctxCancelled, result, wire, rerr, recv,
                    wpc, wmsg, wi, called, hret >>
    /\ UNCHANGED pureVars

\* the loop of l.handle going through l.handlers from the end
NextMatchFromEnd(matchers, i) ==
    IF \E j \in i..Len(handlers) : PatternMatch(matchers, handlers[j])
    THEN CHOOSE j \in i..Len(handlers) :
            /\ PatternMatch(matchers, handlers[j])
            /\ \A n \in (j + 1)..Len(handlers) : ~PatternMatch(matchers, handlers[n])
    ELSE 0

\* the first index j >= i of l.handlers whose text the pattern matches, or 0
NextMatch(matchers, i) ==
    IF \E j \in i..Len(handlers) : PatternMatch(matchers, handlers[j])
    THEN CHOOSE j \in i..Len(handlers) :
            /\ PatternMatch(matchers, handlers[j])
            /\ \A n \in i..(j - 1) : ~PatternMatch(matchers, handlers[n])
    ELSE 0

\* the worker w is in the handler j of l.handle, or l.handle has returned r
InHandler(w, j) ==
    /\ wpc' = [wpc EXCEPT ![w] = "inHandler"]
    /\ wi' = [wi EXCEPT ![w] = j]
    /\ UNCHANGED hret

HandleReturned(w, r) ==
    /\ wpc' = [wpc EXCEPT ![w] = "handled"]
    /\ wi' = [wi EXCEPT ![w] = 0]
    /\ hret' = [hret EXCEPT ![w] = r]

\* a slip: the worker takes the message sent last
WorkerDequeueLast(w) ==
    /\ phase = "serving"
    /\ wpc[w] = "select"
    /\ Len(recv) > 0
    /\ recv' = SubSeq(recv, 1, Len(recv) - 1)
    /\ LET m == recv[Len(recv)]
           pattern == ParsePattern(m.Pattern)
       IN  IF m.nil \/ pattern.panic
           THEN /\ phase' = "panicked"
                /\ UNCHANGED << wpc, wmsg, wi, called, hret >>
           ELSE /\ UNCHANGED phase
                /\ wmsg' = [wmsg EXCEPT ![w] = m]
                /\ called' = [called EXCEPT ![w] = <<>>]
                /\ IF ~pattern.ok THEN HandleReturned(w, "err")
                   ELSE IF NextMatch(pattern.matchers, 1) = 0 THEN HandleReturned(w, "nil")
                   ELSE InHandler(w, NextMatch(pattern.matchers, 1))
    /\ UNCHANGED << handlers, workers, ctxCancelled, gctxDone, gerr, result, wire, rerr,
                    dpc, dmsg, derr >>
    /\ UNCHANGED pureVars

\* a slip: the message is read from recv and left there
WorkerDequeuePeeks(w) ==
    /\ phase = "serving"
    /\ wpc[w] = "select"
    /\ Len(recv) > 0
    /\ UNCHANGED recv
    /\ LET m == Head(recv)
           pattern == ParsePattern(m.Pattern)
       IN  IF m.nil \/ pattern.panic
           THEN /\ phase' = "panicked"
                /\ UNCHANGED << wpc, wmsg, wi, called, hret >>
           ELSE /\ UNCHANGED phase
                /\ wmsg' = [wmsg EXCEPT ![w] = m]
                /\ called' = [called EXCEPT ![w] = <<>>]
                /\ IF ~pattern.ok THEN HandleReturned(w, "err")
                   ELSE IF NextMatch(pattern.matchers, 1) = 0 THEN HandleReturned(w, "nil")
                   ELSE InHandler(w, NextMatch(pattern.matchers, 1))
    /\ UNCHANGED << handlers, workers, ctxCancelled, gctxDone, gerr, result, wire, rerr,
                    dpc, dmsg, derr >>
    /\ UNCHANGED pureVars

\* a slip: a message is taken only while no worker is in a handler
WorkerDequeueExclusive(w) ==
    /\ phase = "serving"
    /\ wpc[w] = "select"
    /\ Len(recv) > 0
    /\ \A v \in Workers : wpc[v] # "inHandler"
    /\ recv' = Tail(recv)
    /\ LET m == Head(recv)
           pattern == ParsePattern(m.Pattern)
       IN  IF m.nil \/ pattern.panic
           THEN /\ phase' = "panicked"
                /\ UNCHANGED << wpc, wmsg, wi, called, hret >>
           ELSE /\ UNCHANGED phase
                /\ wmsg' = [wmsg EXCEPT ![w] = m]
                /\ called' = [called EXCEPT ![w] = <<>>]
                /\ IF ~pattern.ok THEN HandleReturned(w, "err")
                   ELSE IF NextMatch(pattern.matchers, 1) = 0 THEN HandleReturned(w, "nil")
                   ELSE InHandler(w, NextMatch(pattern.matchers, 1))
    /\ UNCHANGED << handlers, workers, ctxCancelled, gctxDone, gerr, result, wire, rerr,
                    dpc, dmsg, derr >>
    /\ UNCHANGED pureVars

\* a slip: the worker returns the compile error of l.handle to the group
WorkerDequeueCompileFatal(w) ==
    /\ phase = "serving"
    /\ wpc[w] = "select"
    /\ Len(recv) > 0
    /\ recv' = Tail(recv)
    /\ LET m == Head(recv)
           pattern == ParsePattern(m.Pattern)
       IN  IF m.nil \/ pattern.panic
           THEN /\ phase' = "panicked"
                /\ UNCHANGED << wpc, wmsg, wi, called, hret, gerr, gctxDone >>
           ELSE /\ UNCHANGED phase
                /\ wmsg' = [wmsg EXCEPT ![w] = m]
                /\ called' = [called EXCEPT ![w] = <<>>]
                /\ IF ~pattern.ok THEN /\ wpc' = [wpc EXCEPT ![w] = "exited"]
                        /\ TaskReturns("compile")
                        /\ UNCHANGED << wi, hret >>
                   ELSE IF NextMatch(pattern.matchers, 1) = 0
                        THEN HandleReturned(w, "nil") /\ UNCHANGED << gerr, gctxDone >>
                   ELSE InHandler(w, NextMatch(pattern.matchers, 1)) /\ UNCHANGED << gerr, gctxDone >>
    /\ UNCHANGED << handlers, workers, ctxCancelled, result, wire, rerr,
                    dpc, dmsg, derr >>
    /\ UNCHANGED pureVars

\* a slip: l.handle returns an error when no handler matches
WorkerDequeueUnmatchedError(w) ==
    /\ phase = "serving"
    /\ wpc[w] = "select"
    /\ Len(recv) > 0
    /\ recv' = Tail(recv)
    /\ LET m == Head(recv)
           pattern == ParsePattern(m.Pattern)
       IN  IF m.nil \/ pattern.panic
           THEN /\ phase' = "panicked"
                /\ UNCHANGED << wpc, wmsg, wi, called, hret, gerr, gctxDone >>
           ELSE /\ UNCHANGED phase
                /\ wmsg' = [wmsg EXCEPT ![w] = m]
                /\ called' = [called EXCEPT ![w] = <<>>]
                /\ IF ~pattern.ok THEN HandleReturned(w, "err") /\ UNCHANGED << gerr, gctxDone >>
                   ELSE IF NextMatch(pattern.matchers, 1) = 0
                        THEN HandleReturned(w, "err") /\ UNCHANGED << gerr, gctxDone >>
                   ELSE InHandler(w, NextMatch(pattern.matchers, 1)) /\ UNCHANGED << gerr, gctxDone >>
    /\ UNCHANGED << handlers, workers, ctxCancelled, result, wire, rerr,
                    dpc, dmsg, derr >>
    /\ UNCHANGED pureVars

\* the case msg = <-recv of a worker's select, and l.handle(msg) up to its
\* first call of a handler: msg.Pattern of a nil msg is a nil dereference
WorkerDequeue(w) ==
    /\ phase = "serving"
    /\ wpc[w] = "select"
    /\ Len(recv) > 0
    /\ recv' = Tail(recv)
    /\ LET m == Head(recv)
           pattern == ParsePattern(m.Pattern)
       IN  IF m.nil \/ pattern.panic
           THEN /\ phase' = "panicked"
                /\ UNCHANGED << wpc, wmsg, wi, called, hret >>
           ELSE /\ UNCHANGED phase
                /\ wmsg' = [wmsg EXCEPT ![w] = m]
                /\ called' = [called EXCEPT ![w] = <<>>]
                /\ IF ~pattern.ok THEN HandleReturned(w, "err")
                   ELSE IF NextMatch(pattern.matchers, 1) = 0 THEN HandleReturned(w, "nil")
                   ELSE InHandler(w, NextMatch(pattern.matchers, 1))
    /\ UNCHANGED << handlers, workers, ctxCancelled, gctxDone, gerr, result, wire, rerr,
                    dpc, dmsg, derr >>
    /\ UNCHANGED pureVars

\* a slip: the loop of l.handle returns the first error of a handler
HandlerReturnStops(w, e) ==
    /\ phase = "serving"
    /\ wpc[w] = "inHandler"
    /\ called' = [called EXCEPT ![w] = Append(@, << wi[w], e >>)]
    /\ LET pattern == ParsePattern(wmsg[w].Pattern)
           j == NextMatch(pattern.matchers, wi[w] + 1)
       IN  IF e THEN HandleReturned(w, "err")
           ELSE IF j = 0 THEN HandleReturned(w, "nil") ELSE InHandler(w, j)
    /\ UNCHANGED << handlers, workers, phase, ctxCancelled, gctxDone, gerr, result, wire,
                    rerr, recv, dpc, dmsg, derr, wmsg >>
    /\ UNCHANGED pureVars

\* the handler the worker w is in returns, with an error (e) or without; the
\* error is logged and the loop of l.handle goes on to the next match
HandlerReturn(w, e) ==
    /\ phase = "serving"
    /\ wpc[w] = "inHandler"
    /\ called' = [called EXCEPT ![w] = Append(@, << wi[w], e >>)]
    /\ LET pattern == ParsePattern(wmsg[w].Pattern)
           j == NextMatch(pattern.matchers, wi[w] + 1)
       IN  IF j = 0 THEN HandleReturned(w, "nil") ELSE InHandler(w, j)
    /\ UNCHANGED << handlers, workers, phase, ctxCancelled, gctxDone, gerr, result, wire,
                    rerr, recv, dpc, dmsg, derr, wmsg >>
    /\ UNCHANGED pureVars

\* l.handle has returned: its error, if any, is logged and the worker goes
\* back to its select
WorkerLoop(w) ==
    /\ phase = "serving"
    /\ wpc[w] = "handled"
    /\ wpc' = [wpc EXCEPT ![w] = "select"]
    /\ wmsg' = [wmsg EXCEPT ![w] = NilMsg]
    /\ called' = [called EXCEPT ![w] = <<>>]
    /\ hret' = [hret EXCEPT ![w] = "none"]
    /\ UNCHANGED << handlers, workers, phase, ctxCancelled, gctxDone, gerr, result, wire,
                    rerr, recv, dpc, dmsg, derr, wi >>
    /\ UNCHANGED pureVars

\* the case <-gctx.Done() of a worker's select
WorkerCancelled(w) ==
    /\ phase = "serving"
    /\ wpc[w] = "select"
    /\ gctxDone
    /\ wpc' = [wpc EXCEPT ![w] = "exited"]
    /\ TaskReturns("canceled")
    /\ UNCHANGED << handlers, workers, phase, ctxCancelled, result, wire, rerr, recv,
                    dpc, dmsg, derr, wmsg, wi, called, hret >>
    /\ UNCHANGED pureVars

\* g.Wait() returns once every goroutine has returned: Serve returns g.err
ServeReturn ==
    /\ phase = "serving"
    /\ dpc = "exited"
    /\ \A w \in Workers : wpc[w] = "exited"
    /\ phase' = "returned"
    /\ result' = gerr
    /\ UNCHANGED << handlers, workers, ctxCancelled, gctxDone, gerr, wire, rerr, recv,
                    dpc, dmsg, derr, wpc, wmsg, wi, called, hret >>
    /\ UNCHANGED pureVars

\* the codec and the matcher at rest
ArgIdle ==
    /\ arg = Arg("Null", <<>>) /\ pre = <<>> /\ tail = <<>>
    /\ enc = <<>> /\ dec = Failed(Arg("Null", <<>>)) /\ adone = {}

MsgIdle ==
    /\ msg = Msg(<<>>, <<>>) /\ menc = <<>> /\ menc2 = <<>>
    /\ mdec = [ok |-> FALSE, msg |-> NilMsg] /\ mdone = "idle"

MatchIdle == mpat = <<>> /\ minput = <<>> /\ mstates = <<>> /\ mres = "idle"

CallIdle == cfn = "none" /\ cin = <<>> /\ cout = [ok |-> FALSE] /\ cdone = FALSE

MemoIdle == pending = {} /\ visited = {} /\ found = "idle"

\* the listener at rest: constructed, never served
ListenerIdle ==
    ListenerInit({0}, [left |-> 0, kinds |-> {}])

Init ==
    /\ ListenerInit(0..MaxWorkers, [left |-> MaxDatagrams, kinds |-> Datagrams])
    /\ ArgIdle /\ MsgIdle /\ MatchIdle /\ CallIdle /\ MemoIdle

Next ==
    \/ \E p \in Texts : Handle(p)
    \/ Serve
    \/ Cancel
    \/ \E d \in wire.kinds, e \in BOOLEAN : ReadFrom(d, e)
    \/ ReadEmpty
    \/ ReadError
    \/ DecodeEnqueue
    \/ DecodeCancelled
    \/ \E w \in Workers : WorkerDequeue(w)
    \/ \E w \in Workers, e \in BOOLEAN : HandlerReturn(w, e)
    \/ \E w \in Workers : WorkerLoop(w)
    \/ \E w \in Workers : WorkerCancelled(w)
    \/ ServeReturn

Spec == Init /\ [][Next]_vars

\* the scheduler runs every goroutine that can take a step, and every handler
\* returns; nothing makes the network deliver a datagram or the caller cancel
Fairness ==
    /\ WF_vars(DecodeEnqueue)
    /\ WF_vars(DecodeCancelled)
    /\ WF_vars(ServeReturn)
    /\ \A w \in 1..MaxWorkers :
          /\ WF_vars(w \in Workers /\ WorkerDequeue(w))
          /\ WF_vars(w \in Workers /\ WorkerLoop(w))
          /\ WF_vars(w \in Workers /\ WorkerCancelled(w))
          /\ WF_vars(w \in Workers /\ \E e \in BOOLEAN : HandlerReturn(w, e))

FairSpec == Init /\ [][Next]_vars /\ Fairness

\* one worker, no handler registered, and a network that delivers one message
\* more than recv holds
InitBP ==
    /\ ListenerInit({1}, [left |-> QueueCap + 1,
                          kinds |-> {MessageAppend(Msg(<<>>, <<>>), <<>>)}])
    /\ ArgIdle /\ MsgIdle /\ MatchIdle /\ CallIdle /\ MemoIdle

NextBP ==
    \/ Serve
    \/ Cancel
    \/ \E d \in wire.kinds, e \in BOOLEAN : ReadFrom(d, e)
    \/ ReadError
    \/ DecodeEnqueue
    \/ DecodeCancelled
    \/ \E w \in Workers : WorkerDequeue(w)
    \/ \E w \in Workers : WorkerLoop(w)
    \/ \E w \in Workers : WorkerCancelled(w)
    \/ ServeReturn

SpecBP == InitBP /\ [][NextBP]_vars

(***************************************************************************)
(* The listener's properties.                                              *)
(***************************************************************************)
\* C1: a datagram that ParseMessage rejects is dropped by the decode
\* goroutine: its (nil) message is never put on recv, so no worker takes it
\* and nothing ends the server because of it.
C1_RejectedDatagramDropped ==
    /\ \A i \in 1..Len(recv) : ~recv[i].nil
    /\ phase # "panicked"

\* C2: once the caller's context is cancelled, Serve eventually returns
\* (handlers return; the network need not deliver anything).
C2_CancelLeadsToReturn == ctxCancelled ~> (phase = "returned")

\* C3: with a handler on "/test/a" and a second on "/test", a message to
\* "/test/a" that a worker has finished handling has had the second handler
\* invoked.
C3_TestHandlerInvoked ==
    \A w \in Workers :
        (handlers = << TestAPath, TestPath >> /\ wpc[w] = "handled"
            /\ wmsg[w].Pattern = TestAPath)
        => \E i \in 1..Len(called[w]) : called[w][i][1] = 2

\* C4: once ReadFrom has returned an error, with at least one worker and a
\* caller that does not cancel, Serve eventually returns that transport error.
C4_TransportErrorEndsServe ==
    (rerr /\ workers >= 1)
        ~> (ctxCancelled \/ (phase = "returned" /\ result = "transport"))

\* C5: recv never holds more than 100 messages, and while it holds 100 and
\* the decode goroutine is in its select, that goroutine keeps the message it
\* is sending and reads nothing more, unless the context is done and it
\* returns; it leaves the select by sending only after a worker has dequeued.
C5_Backpressure ==
    [][ /\ Len(recv') <= QueueCap
        /\ (dpc = "select" /\ Len(recv) = QueueCap)
            => \/ dpc' = "select" /\ dmsg' = dmsg /\ derr' = derr /\ wire' = wire
               \/ gctxDone /\ dpc' = "exited" /\ recv' = recv /\ wire' = wire ]_vars

\* C5's case: one worker, 100 messages on recv, the 101st held by the
\* blocked decode goroutine
C5_Blocked ==
    workers = 1 /\ Len(recv) = QueueCap /\ dpc = "select" /\ ~dmsg.nil /\ wire.left = 0

\* the indexes of the handlers whose registration matches the message m, in
\* registration order
MatchingIndexes(m) ==
    LET pattern == ParsePattern(m.Pattern)
    IN  IF ~pattern.ok THEN <<>>
        ELSE SelectSeq([i \in 1..Len(handlers) |-> i],
                       LAMBDA i : PatternMatch(pattern.matchers, handlers[i]))

CalledIndexes(w) == [i \in 1..Len(called[w]) |-> called[w][i][1]]

\* C6: a handler's error stops nothing: when l.handle has returned, every
\* handler whose registration matches the message has been invoked, and
\* l.handle returned nil if the address compiled; a worker exits only when the
\* group context is done, which only a transport error or the caller's
\* cancellation brings about, and Serve returns only then.
C6_HandlerErrorIsolated ==
    /\ \A w \in Workers :
          wpc[w] = "handled"
          => /\ CalledIndexes(w) = MatchingIndexes(wmsg[w])
             /\ ParsePattern(wmsg[w].Pattern).ok => hret[w] = "nil"
    /\ \A w \in Workers : wpc[w] = "exited" => gctxDone
    /\ gctxDone => (ctxCancelled \/ rerr)
    /\ phase = "returned" => (ctxCancelled \/ rerr)

\* C6's case: a handler returned an error and a later matching handler ran
C6_ErrorThenNext ==
    \E w \in Workers :
        /\ wpc[w] = "handled"
        /\ Len(called[w]) >= 2
        /\ called[w][1][2]

(***************************************************************************)
(* The argument codec on its own: an argument, a destination buffer and a  *)
(* tail are drawn; Append(pre) and the round trip of testArgRoundTrip are  *)
(* the two steps.                                                          *)
(***************************************************************************)
\* bytes of the String values and addresses drawn: NUL, '/', 'a'
StrBytes == {0, 47, 97}

\* bytes of the destination buffers and of the tails drawn
BufBytes == {0, 7}

\* instants drawn: a second before the epoch, the epoch, a nanosecond and half
\* a second after it, and a second after it
TimeTagValues == { <<-1, 0>>, <<0, 0>>, <<0, 1>>, <<0, 500000000>>, <<1, 0>> }

\* int32 drawn: MinInt32, -1, 0, 1, MaxInt32
Int32Values == { (-2147483647) - 1, -1, 0, 1, 2147483647 }

\* float32 drawn, as halves of the bit pattern: 0, -1, a NaN with a payload,
\* the smallest denormal
Float32Values == { <<0, 0>>, <<49024, 0>>, <<32705, 515>>, <<0, 1>> }

ArgValues ==
    {Arg("Int32", <<i>>) : i \in Int32Values} \cup
    {Arg("Float32", f) : f \in Float32Values} \cup
    {Arg("String", str) : str \in SeqsUpTo(StrBytes, MaxStr)} \cup
    {Arg("TimeTag", t) : t \in TimeTagValues} \cup
    {Arg(k, <<>>) : k \in {"True", "False", "Null", "Impulse"}}

InitArg ==
    /\ arg \in ArgValues
    /\ pre \in SeqsUpTo(BufBytes, MaxPre)
    /\ tail \in SeqsUpTo(BufBytes, MaxTail)
    /\ enc = <<>> /\ dec = Failed(arg) /\ adone = {}
    /\ ListenerIdle /\ MsgIdle /\ MatchIdle /\ CallIdle /\ MemoIdle

\* enc := arg.Append(pre)
AppendStep ==
    /\ "append" \notin adone
    /\ enc' = ArgAppend(arg, pre)
    /\ adone' = adone \cup {"append"}
    /\ UNCHANGED << arg, pre, tail, dec >>
    /\ UNCHANGED << listenerVars, msgVars, matchVars, callVars, memoVars >>

\* testArgRoundTrip: got := mk(); got.Consume(append(a.Append(nil), tail...))
RoundTripStep ==
    /\ "roundtrip" \notin adone
    /\ dec' = ArgConsume(newByTypeTag[TypeTag(arg)], ArgAppend(arg, <<>>) \o tail)
    /\ adone' = adone \cup {"roundtrip"}
    /\ UNCHANGED << arg, pre, tail, enc >>
    /\ UNCHANGED << listenerVars, msgVars, matchVars, callVars, memoVars >>

NextArg == AppendStep \/ RoundTripStep

SpecArg == InitArg /\ [][NextArg]_vars

\* the values the wire form can give back: a String without NUL, a TimeTag a
\* whole number of seconds from the epoch on, and every other value
Restorable(a) ==
    CASE a.k = "String"  -> \A i \in 1..Len(a.v) : a.v[i] # 0
      [] a.k = "TimeTag" -> a.v[1] >= 0 /\ a.v[2] = 0
      [] OTHER           -> TRUE

Added == Len(enc) - Len(pre)

\* C9 as stated: whatever the length of the destination buffer, Append adds a
\* multiple of 4 bytes: 4 for Int32 and Float32, 8 for TimeTag, 0 for the
\* markers, the string bytes and 1 to 4 NULs for String.
C9_AddsMultipleOfFour ==
    "append" \in adone
    => /\ (Added % 4) = 0
       /\ CASE arg.k \in {"Int32", "Float32"} -> Added = 4
            [] arg.k = "TimeTag" -> Added = 8
            [] arg.k = "String" -> (Added - Len(arg.v)) \in 1..4
            [] OTHER -> Added = 0

(***************************************************************************)
(* The message codec on its own: a message is drawn, then encoded, parsed  *)
(* and encoded again, as TestMessageRoundtrip does.                        *)
(***************************************************************************)
\* bytes of the addresses drawn (NUL, '/') and of the String arguments drawn
\* (NUL, 'a')
AddrBytes == {0, 47}
MsgStrBytes == {0, 97}

\* the arguments of the messages drawn: a value of each width, and the
\* Strings
MsgArgValues ==
    { Arg("Int32", <<-1>>), Arg("Float32", <<32705, 515>>), Arg("TimeTag", <<-1, 0>>),
      Arg("TimeTag", <<1, 0>>), Arg("True", <<>>) } \cup
    {Arg("String", str) : str \in SeqsUpTo(MsgStrBytes, MaxStr)}

Messages ==
    {Msg(a, args) : a \in SeqsUpTo(AddrBytes, MaxStr), args \in SeqsUpTo(MsgArgValues, MaxArgs)}

InitMsg ==
    /\ msg \in Messages
    /\ menc = <<>> /\ menc2 = <<>>
    /\ mdec = [ok |-> FALSE, msg |-> NilMsg]
    /\ mdone = "drawn"
    /\ ListenerIdle /\ ArgIdle /\ MatchIdle /\ CallIdle /\ MemoIdle

\* enc := msg.Append(nil)
EncodeStep ==
    /\ mdone = "drawn"
    /\ menc' = MessageAppend(msg, <<>>)
    /\ mdone' = "encoded"
    /\ UNCHANGED << msg, mdec, menc2 >>
    /\ UNCHANGED << listenerVars, argVars, matchVars, callVars, memoVars >>

\* got, err := ParseMessage(enc)
ParseStep ==
    /\ mdone = "encoded"
    /\ mdec' = ParseMessage(menc)
    /\ mdone' = "parsed"
    /\ UNCHANGED << msg, menc, menc2 >>
    /\ UNCHANGED << listenerVars, argVars, matchVars, callVars, memoVars >>

\* gotEnc := got.Append(nil), when ParseMessage gave a message
ReencodeStep ==
    /\ mdone = "parsed"
    /\ mdec.ok
    /\ menc2' = MessageAppend(mdec.msg, <<>>)
    /\ mdone' = "reencoded"
    /\ UNCHANGED << msg, menc, mdec >>
    /\ UNCHANGED << listenerVars, argVars, matchVars, callVars, memoVars >>

NextMsg == EncodeStep \/ ParseStep \/ ReencodeStep

SpecMsg == InitMsg /\ [][NextMsg]_vars

\* the round trip of msg has given msg back, and the same bytes
RoundTripped ==
    /\ mdone \in {"parsed", "reencoded"} => (mdec.ok /\ mdec.msg = msg)
    /\ mdone = "reencoded" => menc2 = menc

Matchers ==
    { charMatcher(97), wildcard(TRUE), wildcard(FALSE),
      charClass({98}, FALSE), charClass({98}, TRUE) }

\* bytes of the inputs drawn: 'a', 'b'
InputBytes == {97, 98}

InitMatch ==
    /\ mpat \in SeqsUpTo(Matchers, MaxMatchers)
    /\ minput \in SeqsUpTo(InputBytes, MaxInput)
    /\ mstates = <<>>
    /\ mres = "idle"
    /\ ListenerIdle /\ ArgIdle /\ MsgIdle /\ CallIdle /\ MemoIdle

\* states := []*matchState{{p.matchers, s}}
MatchStart ==
    /\ mres = "idle"
    /\ mstates' = << matchState(mpat, minput) >>
    /\ mres' = "running"
    /\ UNCHANGED << mpat, minput >>
    /\ UNCHANGED << listenerVars, argVars, msgVars, callVars, memoVars >>

\* one iteration of the loop: the top state is popped and does not accept;
\* its successors are pushed
MatchStep ==
    /\ mres = "running"
    /\ Len(mstates) > 0
    /\ LET l == Len(mstates) - 1
           r == stateMatch(mstates[l + 1])
       IN  /\ ~r.accept
           /\ mstates' = Take(mstates, l) \o r.next
    /\ UNCHANGED << mpat, minput, mres >>
    /\ UNCHANGED << listenerVars, argVars, msgVars, callVars, memoVars >>

\* one iteration of the loop: the top state accepts, Match returns true
MatchAccept ==
    /\ mres = "running"
    /\ Len(mstates) > 0
    /\ stateMatch(mstates[Len(mstates)]).accept
    /\ mstates' = Take(mstates, Len(mstates) - 1)
    /\ mres' = "true"
    /\ UNCHANGED << mpat, minput >>
    /\ UNCHANGED << listenerVars, argVars, msgVars, callVars, memoVars >>

\* the stack is empty: Match returns false
MatchFail ==
    /\ mres = "running"
    /\ Len(mstates) = 0
    /\ mres' = "false"
    /\ UNCHANGED << mpat, minput, mstates >>
    /\ UNCHANGED << listenerVars, argVars, msgVars, callVars, memoVars >>

NextMatchLoop == MatchStart \/ MatchStep \/ MatchAccept \/ MatchFail

SpecMatch == InitMatch /\ [][NextMatchLoop]_vars

\* the byte b is one the matcher m consumes as exactly one byte
Consumes(m, b) ==
    CASE m.k = "char"  -> m.c = b
      [] m.k = "wild"  -> TRUE
      [] m.k = "class" -> (b \in m.chars) # m.invert

\* s splits into consecutive pieces, one per matcher of p in order: cut[i] is
\* where the piece of matcher i ends; a * takes any piece, every other
\* matcher a piece of exactly one byte that it consumes
Splits(p, s) ==
    \E cut \in [0..Len(p) -> 0..Len(s)] :
        /\ cut[0] = 0
        /\ cut[Len(p)] = Len(s)
        /\ \A i \in 1..Len(p) :
              /\ cut[i - 1] <= cut[i]
              /\ (p[i].k = "wild" /\ ~p[i].single)
                 \/ (cut[i] = cut[i - 1] + 1 /\ Consumes(p[i], s[cut[i]]))

\* the spec's named cases: "" against the empty pattern, "?", "a*" and "*a"
MatchExamples ==
    LET a == charMatcher(97)
        q == wildcard(TRUE)
        star == wildcard(FALSE)
    IN  /\ PatternMatch(<<>>, <<>>) /\ ~PatternMatch(<<>>, <<97>>)
        /\ PatternMatch(<<q>>, <<120>>) /\ ~PatternMatch(<<q>>, <<>>)
        /\ ~PatternMatch(<<q>>, <<97, 98>>)
        /\ PatternMatch(<<a, star>>, <<97>>)
        /\ PatternMatch(<<a, star>>, <<97, 98, 99>>)
        /\ ~PatternMatch(<<a, star>>, <<98>>) /\ ~PatternMatch(<<a, star>>, <<>>)
        /\ PatternMatch(<<star, a>>, <<97>>)
        /\ PatternMatch(<<star, a>>, <<120, 97>>)
        /\ ~PatternMatch(<<star, a>>, <<97, 120>>)

\* C10: Pattern.Match(s) is true exactly when s splits into consecutive
\* pieces, one per matcher in order, a literal, ? or class taking exactly one
\* byte it accepts and a * any number of bytes; the loop and the function
\* agree, and the named cases of "", "?", "a*" and "*a" come out as stated.
C10_MatchIsSplit ==
    /\ mres \in {"true", "false"} => ((mres = "true") <=> Splits(mpat, minput))
    /\ mres \in {"true", "false"} => ((mres = "true") <=> PatternMatch(mpat, minput))
    /\ mres \in {"true", "false"} => MatchExamples

\* C10's case: a pattern that ends in a literal after a *, matched against an
\* input of two bytes: "*a" on "ba"
C10_StarThenLiteral ==
    /\ mres = "true"
    /\ Len(mpat) = 2 /\ mpat[1] = wildcard(FALSE) /\ mpat[2] = charMatcher(97)
    /\ minput = <<98, 97>>

(***************************************************************************)
(* Single calls of the library's functions: a function and an input for it *)
(* are drawn, and the call is made.                                        *)
(***************************************************************************)
\* bytes of the pattern bodies drawn: ! * - ? a c
BodyBytes == {33, 42, 45, 63, 97, 99}

\* what is put before a body ("", "[", "[!") and after it ("", "]", "]a")
Openings == { <<>>, <<91>>, <<91, 33>> }
Closings == { <<>>, <<93>>, <<93, 97>> }

PatternTexts ==
    { o \o body \o c : o \in Openings, body \in SeqsUpTo(BodyBytes, MaxBody),
                       c \in Closings }

\* the buffers drawn for String.Consume: bytes NUL and 'a'
StringBuffers == SeqsUpTo({0, 97}, MaxBuf)

\* bytes of the type-tag strings drawn: , i s t T x
TagBytes == {44, 105, 115, 116, 84, 120}

\* what follows the type-tag string: an int32 and a string, or a string and
\* an int32
Payloads == { <<0, 0, 0, 1, 97, 0, 0, 0>>, <<97, 0, 0, 0, 0, 0, 0, 1>> }

\* the buffers drawn for ParseMessage: an address, a type-tag string and a
\* payload, cut off after any number of bytes
MessageBuffers ==
    UNION { { Take(full, n) : n \in 0..Len(full) } :
              full \in { StringAppend(a, <<>>) \o StringAppend(tt, <<>>) \o pl :
                            a \in {<<>>, <<47>>}, tt \in SeqsUpTo(TagBytes, MaxTags),
                            pl \in Payloads } }

\* the int32 drawn for Int32 on its own: the ends of the range, the values
\* around 0 and around each byte boundary, and 0x01020304 with either sign
Int32Samples ==
    Int32Values \cup
    { -2147483647, -16909060, -16777216, -65536, -256, -255, 255, 256, 65535,
      65536, 16777215, 16777216, 16909060, 2147483646 }

\* an int32 and the buffer it is appended to
Int32Inputs == [ v : Int32Samples, b : SeqsUpTo(BufBytes, MaxPre) ]

\* the receivers Consume is called on: a value of each variant other than
\* String
Receivers ==
    { Arg("Int32", <<7>>), Arg("Float32", <<16256, 0>>), Arg("TimeTag", <<1, 0>>),
      Arg("True", <<>>), Arg("False", <<>>), Arg("Null", <<>>), Arg("Impulse", <<>>) }

\* the buffers Consume is called on: two buffers of 10 bytes cut off after any
\* number of bytes
ConsumeBuffers ==
    UNION { { Take(full, n) : n \in 0..Len(full) } :
              full \in { <<0, 0, 0, 1, 128, 0, 0, 0, 7, 7>>,
                         <<127, 255, 255, 255, 0, 0, 0, 2, 0, 0>> } }

\* a receiver and the buffer handed to its Consume
ConsumeInputs == [ self : Receivers, b : ConsumeBuffers ]

\* the inputs drawn for each function
CallInputs(f) ==
    CASE f = "parseMatcher"   -> PatternTexts
      [] f = "parseCharClass" -> PatternTexts
      [] f = "String.Consume" -> StringBuffers
      [] f = "ParseMessage"   -> MessageBuffers
      [] f = "Int32"          -> Int32Inputs
      [] f = "Consume"        -> ConsumeInputs

CallFunctions ==
    { "parseMatcher", "parseCharClass", "String.Consume", "ParseMessage", "Int32",
      "Consume" }

InitCall ==
    /\ cfn \in CallFunctions
    /\ cin \in CallInputs(cfn)
    /\ cout = [ok |-> FALSE]
    /\ cdone = FALSE
    /\ ListenerIdle /\ ArgIdle /\ MsgIdle /\ MatchIdle /\ MemoIdle

\* m, rest, err := parseMatcher(cin)
CallParseMatcher ==
    /\ cfn = "parseMatcher" /\ ~cdone
    /\ cout' = parseMatcher(cin)
    /\ cdone' = TRUE
    /\ UNCHANGED << cfn, cin >>
    /\ UNCHANGED << listenerVars, argVars, msgVars, matchVars, memoVars >>

\* cc, rest, err := parseCharClass(cin)
CallParseCharClass ==
    /\ cfn = "parseCharClass" /\ ~cdone
    /\ cout' = parseCharClass(cin)
    /\ cdone' = TRUE
    /\ UNCHANGED << cfn, cin >>
    /\ UNCHANGED << listenerVars, argVars, msgVars, matchVars, memoVars >>

\* var got String; rest, err := got.Consume(cin)
CallStringConsume ==
    /\ cfn = "String.Consume" /\ ~cdone
    /\ cout' = StringConsume(Arg("String", <<>>), cin)
    /\ cdone' = TRUE
    /\ UNCHANGED << cfn, cin >>
    /\ UNCHANGED << listenerVars, argVars, msgVars, matchVars, memoVars >>

\* m, err := ParseMessage(cin)
CallParseMessage ==
    /\ cfn = "ParseMessage" /\ ~cdone
    /\ cout' = ParseMessage(cin)
    /\ cdone' = TRUE
    /\ UNCHANGED << cfn, cin >>
    /\ UNCHANGED << listenerVars, argVars, msgVars, matchVars, memoVars >>

\* b1 := Int32(v).Append(b); var j Int32; rest, err := j.Consume(b1[len(b):])
CallInt32 ==
    /\ cfn = "Int32" /\ ~cdone
    /\ LET b1 == Int32Append(cin.v, cin.b)
       IN  cout' = [ok |-> TRUE, enc |-> b1,
                    dec |-> Int32Consume(Arg("Int32", <<0>>), Drop(b1, Len(cin.b)))]
    /\ cdone' = TRUE
    /\ UNCHANGED << cfn, cin >>
    /\ UNCHANGED << listenerVars, argVars, msgVars, matchVars, memoVars >>

\* rest, err := self.Consume(b), self a value of any variant but String
CallConsume ==
    /\ cfn = "Consume" /\ ~cdone
    /\ cout' = ArgConsume(cin.self, cin.b)
    /\ cdone' = TRUE
    /\ UNCHANGED << cfn, cin >>
    /\ UNCHANGED << listenerVars, argVars, msgVars, matchVars, memoVars >>

NextCall ==
    \/ CallParseMatcher
    \/ CallParseCharClass
    \/ CallStringConsume
    \/ CallParseMessage
    \/ CallInt32
    \/ CallConsume

SpecCall == InitCall /\ [][NextCall]_vars

\* C11: parseMatcher succeeds on every non-empty text, returning the * node,
\* the ? node, the class of parseCharClass or the literal of the first byte,
\* with the text after the consumed prefix as remainder; on the empty text it
\* returns an error and does not fault.
C11_ParseMatcherByFirstByte ==
    (cfn = "parseMatcher" /\ cdone)
    => IF Len(cin) = 0 THEN ~cout.ok /\ ~cout.panic
       ELSE CASE cin[1] = 42 -> cout = Parsed(wildcard(FALSE), Tail(cin))
              [] cin[1] = 63 -> cout = Parsed(wildcard(TRUE), Tail(cin))
              [] cin[1] = 91 -> cout = parseCharClass(cin)
              [] OTHER       -> cout = Parsed(charMatcher(cin[1]), Tail(cin))

\* the text after "[" and an optional "!" directly after it
AfterOpening(s) ==
    LET s1 == Tail(s) IN IF Len(s1) > 0 /\ s1[1] = 33 THEN Tail(s1) ELSE s1

\* the text starts with "[" and has a "]" after the opening
Bracketed(s) == Len(s) > 0 /\ s[1] = 91 /\ IndexByte(AfterOpening(s), 93) >= 0

\* the body of a bracketed text: what lies between the opening and the first "]"
Body(s) == Take(AfterOpening(s), IndexByte(AfterOpening(s), 93))

\* the '-' at place i of a body stands between two bytes: a range operator
RangeAt(body, i) == body[i] = 45 /\ 1 < i /\ i < Len(body)

\* some range x-y of the body has y < x
BadRange(body) == \E i \in 1..Len(body) : RangeAt(body, i) /\ body[i + 1] < body[i - 1]

\* the bytes a body denotes: the listed ones and those of its ranges
Denoted(body) ==
    { body[i] : i \in { j \in 1..Len(body) : ~RangeAt(body, j) } }
    \cup UNION { body[i - 1]..body[i + 1] : i \in { j \in 1..Len(body) : RangeAt(body, j) } }

\* "[a-e]", "[!a-e]", "[-a]", "[a-]" and "[!!--]"
ClassExamples ==
    /\ parseCharClass(<<91, 97, 45, 101, 93>>) = Parsed(charClass(97..101, FALSE), <<>>)
    /\ parseCharClass(<<91, 33, 97, 45, 101, 93>>) = Parsed(charClass(97..101, TRUE), <<>>)
    /\ parseCharClass(<<91, 45, 97, 93>>) = Parsed(charClass({45, 97}, FALSE), <<>>)
    /\ parseCharClass(<<91, 97, 45, 93>>) = Parsed(charClass({45, 97}, FALSE), <<>>)
    /\ parseCharClass(<<91, 33, 33, 45, 45, 93>>) = Parsed(charClass(33..45, TRUE), <<>>)

\* C12: for a well-formed class text parseCharClass returns the text after the
\* first "]" as remainder and the class of exactly the bytes the body lists
\* and the bytes of its ranges x-y, a '-' at the start or the end of the body
\* being a listed byte; the class is inverted iff "!" directly follows "[".
C12_ClassIsDenoted ==
    (cfn = "parseCharClass" /\ cdone /\ Bracketed(cin) /\ ~BadRange(Body(cin)))
    => /\ cout.ok
       /\ cout.m = charClass(Denoted(Body(cin)), Len(cin) > 1 /\ cin[2] = 33)
       /\ cout.rest = Drop(AfterOpening(cin), Len(Body(cin)) + 1)
       /\ ClassExamples

\* C12's case: "[!a-c]a" parsed
C12_InvertedRangeParsed ==
    /\ cfn = "parseCharClass" /\ cdone
    /\ cin = <<91, 33, 97, 45, 99, 93, 97>>
    /\ cout.ok /\ cout.m.invert /\ 98 \in cout.m.chars /\ cout.rest = <<97>>

\* "abc", "abc]", "[abc", "[" and "[b-a]" are errors
ClassErrorExamples ==
    /\ ~parseCharClass(<<97, 98, 99>>).ok
    /\ ~parseCharClass(<<97, 98, 99, 93>>).ok
    /\ ~parseCharClass(<<91, 97, 98, 99>>).ok
    /\ ~parseCharClass(<<91>>).ok
    /\ ~parseCharClass(<<91, 98, 45, 97, 93>>).ok

\* C13: parseCharClass returns an error exactly when the text does not start
\* with "[", or has no "]" after the opening, or its body has a range x-y
\* with y < x; it never faults.
C13_ClassErrorsExactly ==
    (cfn = "parseCharClass" /\ cdone)
    => /\ ~cout.panic
       /\ ~cout.ok <=> (~Bracketed(cin) \/ BadRange(Body(cin)))
       /\ ~cout.ok => cout.rest = <<>>
       /\ ClassErrorExamples

\* C13's case: "[c-a]" refused
C13_BadRangeRefused ==
    /\ cfn = "parseCharClass" /\ cdone
    /\ cin = <<91, 99, 45, 97, 93>>
    /\ ~cout.ok

\* the buffer holds a NUL byte
HasNul(b) == \E i \in 1..Len(b) : b[i] = 0

\* C14: String.Consume fails on every buffer without a NUL byte, the empty
\* one included, and succeeds on every buffer with one, whatever its length.
C14_ConsumeNeedsNul ==
    (cfn = "String.Consume" /\ cdone)
    => /\ cout.ok <=> HasNul(cin)
       /\ ~cout.ok => cout.rest = <<>>

\* C14's case: the buffer of a single NUL byte taken as the empty string
C14_SingleNulConsumed ==
    /\ cfn = "String.Consume" /\ cdone
    /\ cin = <<0>>
    /\ cout.ok /\ cout.val = Arg("String", <<>>) /\ cout.rest = <<>>

\* the bytes an argument of tag t needs at the head of buf, or -1 when buf is
\* too short for it
Needs(t, buf) ==
    CASE t \in {105, 102} -> IF Len(buf) < 4 THEN -1 ELSE 4
      [] t = 116          -> IF Len(buf) < 8 THEN -1 ELSE 8
      [] t = 115          -> IF ~HasNul(buf) THEN -1
                             ELSE LET end == IndexByte(buf, 0)
                                  IN  Min(4 * ((end \div 4) + 1), Len(buf))
      [] OTHER            -> 0

\* the buffer is cut short of the arguments of tags i.. of tags
RECURSIVE Truncated(_, _, _)
Truncated(tags, i, buf) ==
    IF i > Len(tags) THEN FALSE
    ELSE IF Needs(tags[i], buf) < 0 THEN TRUE
    ELSE Truncated(tags, i + 1, Drop(buf, Needs(tags[i], buf)))

\* the tag characters of the registry: i f s t T F N I
Registry == {105, 102, 115, 116, 84, 70, 78, 73}

\* the reasons for ParseMessage to refuse buf
Refused(buf) ==
    LET a == StringConsume(Arg("String", <<>>), buf)
        tt == StringConsume(Arg("String", <<>>), a.rest)
        tags == tt.val.v
    IN  \/ ~a.ok
        \/ ~tt.ok
        \/ Len(tags) = 0
        \/ tags[1] # 44
        \/ \E i \in 2..Len(tags) : tags[i] \notin Registry
        \/ Truncated(Tail(tags), 1, tt.rest)

\* C15: ParseMessage returns an error and no Message when the address or the
\* type-tag string is unterminated, the type-tag string is empty or does not
\* start with ',', a later tag is not in the registry, or the buffer is cut
\* short of an argument; otherwise it returns a Message with the address and
\* one argument per tag character, in tag order.
C15_ParseMessageRefusals ==
    (cfn = "ParseMessage" /\ cdone)
    => IF Refused(cin) THEN ~cout.ok /\ cout.msg = NilMsg
       ELSE LET a == StringConsume(Arg("String", <<>>), cin)
                tags == StringConsume(Arg("String", <<>>), a.rest).val.v
            IN  /\ cout.ok
                /\ cout.msg.Pattern = a.val.v
                /\ Len(cout.msg.Arguments) = Len(tags) - 1
                /\ \A i \in 1..Len(cout.msg.Arguments) :
                      TypeTag(cout.msg.Arguments[i]) = tags[i + 1]

\* C15's case: "/" with the type-tag string ",x" refused for the unknown tag
C15_UnknownTagRefused ==
    /\ cfn = "ParseMessage" /\ cdone
    /\ cin = <<47, 0, 0, 0, 44, 120, 0, 0>>
    /\ ~cout.ok

\* bit j (0 the least significant, 31 the sign) of the two's-complement
\* representation of the int32 v
Bit(v, j) ==
    IF j = 31 THEN (IF v < 0 THEN 1 ELSE 0)
    ELSE LET low == IF v >= 0 THEN v ELSE (v + 2147483647) + 1
         IN  (low \div (2 ^ j)) % 2

\* byte k (0 the most significant) of that representation
TwosComplementByte(v, k) ==
    LET j0 == 8 * (3 - k)
    IN  Bit(v, j0) + 2 * Bit(v, j0 + 1) + 4 * Bit(v, j0 + 2) + 8 * Bit(v, j0 + 3)
        + 16 * Bit(v, j0 + 4) + 32 * Bit(v, j0 + 5) + 64 * Bit(v, j0 + 6)
        + 128 * Bit(v, j0 + 7)

\* C16: Int32(v).Append(b) is b followed by the 4 bytes of the 32-bit
\* two's-complement representation of v, most significant first, and
\* Int32.Consume on those 4 bytes succeeds and gives v back.
C16_Int32BigEndian ==
    (cfn = "Int32" /\ cdone)
    => /\ cout.enc = cin.b \o << TwosComplementByte(cin.v, 0), TwosComplementByte(cin.v, 1),
                                TwosComplementByte(cin.v, 2), TwosComplementByte(cin.v, 3) >>
       /\ cout.dec = Consumed(Arg("Int32", << cin.v >>), <<>>)

\* C16's case: MinInt32 appended to a buffer of two bytes and read back
C16_MinInt32RoundTripped ==
    /\ cfn = "Int32" /\ cdone
    /\ cin.v = (-2147483647) - 1 /\ Len(cin.b) = 2
    /\ cout.enc = cin.b \o <<128, 0, 0, 0>>
    /\ cout.dec.ok /\ cout.dec.val = Arg("Int32", << cin.v >>)

\* Pattern.Match runs on: the loop is not left waiting between iterations
FairSpecMatch == SpecMatch /\ WF_vars(NextMatchLoop)

\* what is left of a pending state: matchers still to apply and input still
\* to read
Remaining(st) == Len(st.matchers) + Len(st.s)

\* C17: every state an iteration of the loop pushes has strictly less left
\* (remaining matchers plus remaining input) than the state it popped, and
\* Pattern.Match returns.
C17_MatchTerminates ==
    /\ [][ (mres = "running" /\ Len(mstates) > 0)
           => \A i \in Len(mstates)..Len(mstates') :
                 Remaining(mstates'[i]) < Remaining(mstates[Len(mstates)]) ]_vars
    /\ <>(mres \in {"true", "false"})

\* C17's case: "**a" has been tried on "bbb" in every way and Match has
\* returned false
C17_SearchExhausted ==
    /\ mres = "false"
    /\ mpat = << wildcard(FALSE), wildcard(FALSE), charMatcher(97) >>
    /\ minput = <<98, 98, 98>>

(***************************************************************************)
(* The transitions of matchState.match explored in any order, each         *)
(* (matcher-index, input-index) pair at most once.                         *)
(***************************************************************************)
\* the pending state that the pair <<i, j>> stands for: matchers and input
\* from those indexes on
StateAt(p, s, pair) == matchState(Drop(p, pair[1]), Drop(s, pair[2]))

\* the pair of a pending state of the search of p on s
PairOf(p, s, st) == << Len(p) - Len(st.matchers), Len(s) - Len(st.s) >>

\* the pairs matchState.match pushes from a pair
Successors(p, s, pair) ==
    LET next == stateMatch(StateAt(p, s, pair)).next
    IN  { PairOf(p, s, next[k]) : k \in 1..Len(next) }

InitMemo ==
    /\ mpat \in SeqsUpTo(Matchers, MaxMatchers)
    /\ minput \in SeqsUpTo(InputBytes, MaxInput)
    /\ mstates = <<>> /\ mres = "idle"
    /\ pending = {} /\ visited = {} /\ found = "idle"
    /\ ListenerIdle /\ ArgIdle /\ MsgIdle /\ CallIdle

\* the search starts from the whole pattern and the whole input
MemoStart ==
    /\ found = "idle"
    /\ pending' = { <<0, 0>> }
    /\ found' = "running"
    /\ UNCHANGED visited
    /\ UNCHANGED << listenerVars, argVars, msgVars, matchVars, callVars >>

\* any pending pair is taken; it does not accept, and its successors not yet
\* visited become pending
MemoVisit(pair) ==
    /\ found = "running"
    /\ pair \in pending
    /\ ~stateMatch(StateAt(mpat, minput, pair)).accept
    /\ visited' = visited \cup {pair}
    /\ pending' = (pending \cup Successors(mpat, minput, pair)) \ visited'
    /\ UNCHANGED found
    /\ UNCHANGED << listenerVars, argVars, msgVars, matchVars, callVars >>

\* any pending pair is taken; it accepts
MemoAccept(pair) ==
    /\ found = "running"
    /\ pair \in pending
    /\ stateMatch(StateAt(mpat, minput, pair)).accept
    /\ found' = "true"
    /\ UNCHANGED << pending, visited >>
    /\ UNCHANGED << listenerVars, argVars, msgVars, matchVars, callVars >>

\* nothing is pending
MemoFail ==
    /\ found = "running"
    /\ pending = {}
    /\ found' = "false"
    /\ UNCHANGED << pending, visited >>
    /\ UNCHANGED << listenerVars, argVars, msgVars, matchVars, callVars >>

NextMemo ==
    \/ MemoStart
    \/ \E pair \in pending : MemoVisit(pair)
    \/ \E pair \in pending : MemoAccept(pair)
    \/ MemoFail

SpecMemo == InitMemo /\ [][NextMemo]_vars

\* C18: the result of Pattern.Match is the result of a search over the same
\* transitions that takes the pending states in any order and visits each
\* (matcher-index, input-index) pair at most once.
C18_OrderAndMemoIrrelevant ==
    found \in {"true", "false"} => ((found = "true") <=> PatternMatch(mpat, minput))

\* C18's case: "**a" on "bba": the pair (2, 1) is pushed from (1, 0) and from
\* (1, 1); the search has visited it, with other pairs still pending, and has
\* gone on to accept
C18_SharedPairVisitedOnce ==
    /\ found = "true"
    /\ mpat = << wildcard(FALSE), wildcard(FALSE), charMatcher(97) >>
    /\ minput = <<98, 98, 97>>
    /\ <<2, 1>> \in visited
    /\ pending # {}

(***************************************************************************)
(* Routing: which handlers a worker invokes for a message, and when.       *)
(***************************************************************************)
\* the matcher sequence the pattern grammar gives for a text: "*" and "?" the
\* wildcards, "[" a class, any other byte the literal of that byte; ok is
\* FALSE for a text with a malformed class
RECURSIVE Compiled(_, _)
Compiled(s, acc) ==
    IF Len(s) = 0 THEN [ok |-> TRUE, matchers |-> acc]
    ELSE IF s[1] = 91
         THEN LET r == parseCharClass(s)
              IN  IF ~r.ok THEN [ok |-> FALSE, matchers |-> <<>>]
                  ELSE Compiled(r.rest, Append(acc, r.m))
    ELSE IF s[1] = 42 THEN Compiled(Tail(s), Append(acc, wildcard(FALSE)))
    ELSE IF s[1] = 63 THEN Compiled(Tail(s), Append(acc, wildcard(TRUE)))
    ELSE Compiled(Tail(s), Append(acc, charMatcher(s[1])))

\* the indexes of the table entries whose registered text, taken as a literal
\* string, the pattern of the address matches
Routed(address) ==
    LET pattern == Compiled(address, <<>>)
    IN  IF ~pattern.ok THEN {}
        ELSE { i \in 1..Len(handlers) : PatternMatch(pattern.matchers, handlers[i]) }

\* C19: when a worker has finished with a message, the handlers it invoked are
\* exactly those of the table entries whose registered text, taken as a
\* literal string, is matched by the pattern compiled from the address of the
\* message.
C19_RoutedByAddressPattern ==
    \A w \in Workers :
        wpc[w] = "handled"
        => { called[w][k][1] : k \in 1..Len(called[w]) } = Routed(wmsg[w].Pattern)

C21_CompileErrorAbortsOneMessage ==
    /\ [](\A w \in Workers :
            (wpc[w] \in {"inHandler", "handled"} /\ ~ParsePattern(wmsg[w].Pattern).ok)
            => (wpc[w] = "handled" /\ called[w] = <<>> /\ hret[w] = "err"))
    /\ [][ \A w \in Workers :
              (wpc[w] = "select" /\ wmsg'[w] # wmsg[w]
                  /\ ~ParsePattern(wmsg'[w].Pattern).ok)
              => (wpc'[w] = "handled" /\ hret'[w] = "err" /\ called'[w] = <<>>
                    /\ gctxDone' = gctxDone /\ gerr' = gerr /\ phase' = "serving") ]_vars
    /\ [][ \A w \in Workers :
              (wpc[w] = "handled" /\ hret[w] = "err" /\ wpc'[w] # "handled")
              => (wpc'[w] = "select" /\ gctxDone' = gctxDone /\ gerr' = gerr
                    /\ phase' = "serving") ]_vars

\* C21's case: a worker is back from l.handle with the compile error of the
\* address "/test/a", the group is not cancelled, and a message is waiting
C21_CompileErrorSurvived ==
    \E w \in Workers :
        /\ wpc[w] = "handled" /\ hret[w] = "err"
        /\ wmsg[w].Pattern = TestAPath
        /\ phase = "serving" /\ ~gctxDone
        /\ Len(recv) > 0

Dispatching == { w \in Workers : wpc[w] \in {"inHandler", "handled"} }

C24_ConsumeSkipsToAlignment ==
    /\ (cfn = "String.Consume" /\ cdone /\ HasNul(cin))
       => LET e == CHOOSE i \in 0..(Len(cin) - 1) :
                      cin[i + 1] = 0 /\ \A j \in 1..i : cin[j] # 0
          IN  /\ cout.ok
              /\ cout.val = Arg("String", [i \in 1..e |-> cin[i]])
              /\ cout.rest = Drop(cin, Min((4 * (e \div 4)) + 4, Len(cin)))
    /\ (cfn = "String.Consume" /\ cdone)
       => /\ StringConsume(Arg("String", <<>>), <<97, 0, 0, 0, 0>>)
                = Consumed(Arg("String", <<97>>), <<0>>)
          /\ StringConsume(Arg("String", <<>>), <<0, 0>>)
                = Consumed(Arg("String", <<>>), <<>>)

\* C24's case: [a,0,a,a,0]: the two bytes after the terminator are not NUL
\* and are skipped as padding
C24_NonZeroPaddingSkipped ==
    /\ cfn = "String.Consume" /\ cdone
    /\ cin = <<97, 0, 97, 97, 0>>
    /\ cout.ok /\ cout.val = Arg("String", <<97>>) /\ cout.rest = <<0>>

\* the bytes the wire form of a variant takes: 4, 8 or none
Width(k) ==
    CASE k \in {"Int32", "Float32"} -> 4
      [] k = "TimeTag"              -> 8
      [] OTHER                      -> 0

\* C25: Int32.Consume and Float32.Consume fail iff the buffer has fewer than 4
\* bytes and TimeTag.Consume iff it has fewer than 8; on failure the receiver
\* keeps its value; on success the remainder is the buffer without its first
\* 4 or 8 bytes; True, False, Null and Impulse always succeed and return the
\* buffer as it is.
C25_FixedWidthConsume ==
    (cfn = "Consume" /\ cdone)
    => /\ cout.ok <=> (Len(cin.b) >= Width(cin.self.k))
       /\ ~cout.ok => (cout.val = cin.self /\ cout.rest = <<>>)
       /\ cout.ok => cout.rest = Drop(cin.b, Width(cin.self.k))
       /\ cout.ok => cout.val.k = cin.self.k
       /\ Width(cin.self.k) = 0 => cout = Consumed(cin.self, cin.b)

\* C25's case: Int32.Consume on 3 bytes has failed and the receiver is still 7
C25_ShortInt32Refused ==
    /\ cfn = "Consume" /\ cdone
    /\ cin.self = Arg("Int32", <<7>>) /\ Len(cin.b) = 3
    /\ ~cout.ok /\ cout.val = Arg("Int32", <<7>>)

\* the messages in the listener's hands: the one the decode goroutine is
\* sending, those in recv, and those the workers hold
InHand == (IF dpc = "select" THEN 1 ELSE 0) + Len(recv) + Cardinality(Dispatching)

\* C26: a message leaves recv by going to exactly one worker, which takes the
\* head; there are never more messages in the listener's hands than
\* datagrams received; a worker in a handler holds a message decoded from a
\* datagram of the network; and no handler is invoked twice for one message.
C26_EachMessageOnce ==
    /\ [](/\ InHand <= MaxDatagrams - wire.left
          /\ \A w \in Workers :
                wpc[w] = "inHandler"
                => \E d \in wire.kinds :
                      ParseMessage(d).ok /\ wmsg[w] = ParseMessage(d).msg
          /\ \A w \in Workers : \A i, j \in 1..Len(called[w]) :
                called[w][i][1] = called[w][j][1] => i = j)
    /\ [][ recv' # recv
           => \/ /\ Len(recv) > 0 /\ recv' = Tail(recv)
                 /\ \/ phase' = "panicked"
                    \/ \E w \in Workers :
                          /\ wpc[w] = "select" /\ wmsg'[w] = Head(recv)
                          /\ \A v \in Workers \ {w} :
                                (wmsg'[v] = wmsg[v] /\ wpc'[v] = wpc[v]
                                    /\ called'[v] = called[v])
              \/ /\ dpc = "select" /\ recv' = Append(recv, dmsg)
                 /\ wmsg' = wmsg /\ called' = called ]_vars

\* C26's case: with two workers and two messages received, each worker holds
\* one of them and recv is empty
C26_OneMessageEach ==
    /\ workers = 2
    /\ wpc[1] \in {"inHandler", "handled"} /\ wpc[2] \in {"inHandler", "handled"}
    /\ recv = <<>> /\ wire.left = MaxDatagrams - 2

\* a message that decoded waits in recv
DecodedWaiting == \E i \in 1..Len(recv) : ~recv[i].nil

\* worker w holds a message whose handlers have not all returned
Holding(w) == IF w \in Workers THEN wpc[w] = "inHandler" ELSE FALSE

\* l.handle has returned to worker w with every matching handler invoked
Dispatched(w) ==
    IF w \in Workers
    THEN wpc[w] = "handled" /\ CalledIndexes(w) = MatchingIndexes(wmsg[w])
    ELSE FALSE

\* C27: with at least one worker, unless the caller cancels or the transport
\* returns an error, a decoded message is eventually sent on recv, a decoded
\* message that waits in recv is eventually taken by a worker, and a worker that holds a message eventually has l.handle
\* return for it with every matching handler invoked.
C27_DecodedIsDispatched ==
    /\ (workers >= 1 /\ dpc = "select" /\ ~dmsg.nil) ~> (ctxCancelled \/ rerr \/ dpc # "select")
    /\ (workers >= 1 /\ DecodedWaiting) ~> (ctxCancelled \/ rerr \/ ~DecodedWaiting)
    /\ \A w \in 1..MaxWorkers :
          Holding(w) ~> (ctxCancelled \/ rerr \/ Dispatched(w))

\* C28: datagrams are read, decoded and sent on recv one at a time, recv hands
\* messages out in the order they were sent, and a worker takes a message only
\* when l.handle has returned for its previous one; so a single worker
\* dispatches the messages in the order of receipt, each one's handlers
\* finished before the next one's start, and with several workers each worker
\* handles its messages in the order it took them.
C28_DispatchInReceiptOrder ==
    /\ [](\A w \in Workers : wpc[w] = "select" => (wmsg[w] = NilMsg /\ called[w] = <<>>))
    /\ [][ /\ wire' # wire => (dpc = "read" /\ recv' = recv)
           /\ Len(recv') > Len(recv) => (dpc = "select" /\ recv' = Append(recv, dmsg))
           /\ Len(recv') < Len(recv)
                 => /\ recv' = Tail(recv)
                    /\ \/ phase' = "panicked"
                       \/ \E w \in Workers : wpc[w] = "select" /\ wmsg'[w] = Head(recv)
           /\ Len(recv') = Len(recv) => recv' = recv
           /\ \A w \in Workers :
                 /\ wmsg'[w] # wmsg[w] => wpc[w] \in {"select", "handled"}
                 /\ (wpc[w] = "inHandler" /\ << wpc'[w], called'[w] >> # << wpc[w], called[w] >>)
                       => /\ wpc'[w] \in {"inHandler", "handled"}
                          /\ \E e \in BOOLEAN : called'[w] = Append(called[w], << wi[w], e >>)
                 /\ (wpc[w] = "handled" /\ wpc'[w] # "handled") => wpc'[w] \in {"select", "exited"}
      ]_vars

\* one worker is in a handler for the first message while the second, a
\* different one, waits in recv
C28_SecondWaitsForFirst ==
    /\ workers = 1
    /\ wpc[1] = "inHandler"
    /\ Len(recv) = 2
    /\ recv[1] # wmsg[1] /\ recv[2] # recv[1]

====
